---------------------------- MODULE Spec2Model ----------------------------
(***************************************************************************)
(* A model of lipr's index builder (src/main.py).                          *)
(*                                                                         *)
(* main() is a sequential program: it wipes the workspace, discovers the   *)
(* repositories, and for every repository fetches the repository info,    *)
(* the HEAD manifest, the tag versions and one manifest per version,       *)
(* reduces them to an index entry, and at the end writes two index         *)
(* documents.  Every call of the program that reaches outside the process  *)
(* (gh, git, lip, HTTP, the file system) is one action whose outcome is    *)
(* chosen by the environment.                                              *)
(*                                                                         *)
(* Strings that the program takes apart (refs, versions, variant labels)   *)
(* are sequences of one-character strings.                                 *)
(***************************************************************************)
EXTENDS Integers, Sequences, FiniteSets, TLC

VARIABLES
    pc,                 \* position of main()
    baseDir,            \* what _BASE_DIR holds: index.json, levilauncher.json, cached manifests
    repos,              \* the list _discover_repos() returned
    ri,                 \* index in repos of the repository being processed (0: none yet)
    attempt,            \* attempt number of the running @retry call
    repo_info,          \* local of main(): result of _fetch_repo_info
    head_manifest,      \* local of main(): result of _fetch_manifest(repo, "HEAD")
    versions,           \* local of main(): result of _fetch_versions
    vi,                 \* number of elements of versions the inner loop has taken
    manifests,          \* local of main(): manifests appended so far
    packages,           \* local of main(): repo -> IndexPackage
    packages_for_levilauncher, \* local of main(): repo -> IndexPackageForLeviLauncher
    exitCode,           \* exit code of the process once it ended, else -1
    lastFetch,          \* history: what the last _fetch_manifest call did
    tried,              \* history: outcome per version of the current repository
    status,             \* history: how the processing of each repository ended
    stdout,             \* the output of git ls-remote that the resolver reads
    upstream,           \* what the services of this run can answer with
    discover_error,     \* the exception of the last attempt of _discover_repos
    tooth_json          \* the bytes given to Manifest.model_validate_json alone

vars == <<pc, baseDir, repos, ri, attempt, repo_info, head_manifest, versions, vi,
          manifests, packages, packages_for_levilauncher, exitCode, lastFetch,
          tried, status, stdout, upstream, discover_error, tooth_json>>

-----------------------------------------------------------------------------
(* Bounds of the model *)

\* most repositories one discovery returns, when the repositories are simple
MaxRepos == 2
\* most repositories one discovery returns, when the repositories are varied
MaxVariedRepos == 1
\* most lines of git ls-remote output per repository in a pipeline run
MaxTags == 2
\* most lines of git ls-remote output when the resolver is checked alone
MaxRefLines == 3

\* most characters of a variant label when the validation is checked alone
MaxLabelLen == 5

\* stop_after_attempt(10)
MaxAttempts == 10

\* Python's None, where a content, a manifest or an entry is expected
NoContent == [format |-> "none"]
NoManifest == [absent |-> TRUE]

-----------------------------------------------------------------------------
(* Characters and strings *)

Digits == <<"0", "1", "2", "3", "4", "5", "6", "7", "8", "9">>
Upper == <<"A", "B", "C", "D", "E", "F", "G", "H", "I", "J", "K", "L", "M",
           "N", "O", "P", "Q", "R", "S", "T", "U", "V", "W", "X", "Y", "Z">>
Lower == <<"a", "b", "c", "d", "e", "f", "g", "h", "i", "j", "k", "l", "m",
           "n", "o", "p", "q", "r", "s", "t", "u", "v", "w", "x", "y", "z">>

Range(s) == {s[i] : i \in DOMAIN s}

DigitChars == Range(Digits)
SemverChars == Range(Digits) \cup Range(Upper) \cup Range(Lower) \cup {"-"}

IsDigit(c) == c \in DigitChars
IsSemverChar(c) == c \in SemverChars

\* str.startswith
StartsWith(s, p) == Len(s) >= Len(p) /\ SubSeq(s, 1, Len(p)) = p

\* str.removeprefix
RemovePrefix(s, p) == IF StartsWith(s, p) THEN SubSeq(s, Len(p) + 1, Len(s)) ELSE s

\* position of the first c in s, 0 when there is none
IndexOf(s, c) ==
    IF \E i \in DOMAIN s : s[i] = c
    THEN CHOOSE i \in DOMAIN s : s[i] = c /\ \A j \in 1..(i - 1) : s[j] # c
    ELSE 0

\* str.split(c): the parts of s between the occurrences of c
RECURSIVE SplitOn(_, _)
SplitOn(s, c) ==
    IF IndexOf(s, c) = 0
    THEN <<s>>
    ELSE <<SubSeq(s, 1, IndexOf(s, c) - 1)>>
         \o SplitOn(SubSeq(s, IndexOf(s, c) + 1, Len(s)), c)


-----------------------------------------------------------------------------
(* semver.Version.is_valid: the regular expression of the semver package *)

\* every character of s is a digit, a semver character, a label character
AllDigits(s) == \A i \in DOMAIN s : IsDigit(s[i])
AllSemverChars(s) == \A i \in DOMAIN s : IsSemverChar(s[i])

\* 0|[1-9]\d*
IsNumericId(s) ==
    /\ Len(s) > 0
    /\ AllDigits(s)
    /\ (Len(s) > 1 => s[1] # "0")

\* 0|[1-9]\d*|\d*[a-zA-Z-][0-9a-zA-Z-]*
IsPrereleaseId(s) ==
    /\ Len(s) > 0
    /\ AllSemverChars(s)
    /\ (AllDigits(s) => IsNumericId(s))

\* [0-9a-zA-Z-]+
IsBuildId(s) == Len(s) > 0 /\ AllSemverChars(s)

\* the text before the first "+", and the build metadata after it
BeforeBuild(ver) ==
    IF IndexOf(ver, "+") = 0 THEN ver ELSE SubSeq(ver, 1, IndexOf(ver, "+") - 1)
HasBuild(ver) == IndexOf(ver, "+") # 0
BuildOf(ver) == SubSeq(ver, IndexOf(ver, "+") + 1, Len(ver))

\* major.minor.patch, and the prerelease after the first "-"
CoreOf(ver) ==
    IF IndexOf(BeforeBuild(ver), "-") = 0
    THEN BeforeBuild(ver)
    ELSE SubSeq(BeforeBuild(ver), 1, IndexOf(BeforeBuild(ver), "-") - 1)
HasPrerelease(ver) == IndexOf(BeforeBuild(ver), "-") # 0
PrereleaseOf(ver) ==
    SubSeq(BeforeBuild(ver), IndexOf(BeforeBuild(ver), "-") + 1, Len(BeforeBuild(ver)))

IsValid(ver) ==
    /\ Len(SplitOn(CoreOf(ver), ".")) = 3
    /\ \A id \in Range(SplitOn(CoreOf(ver), ".")) : IsNumericId(id)
    /\ (HasPrerelease(ver) =>
          \A id \in Range(SplitOn(PrereleaseOf(ver), ".")) : IsPrereleaseId(id))
    /\ (HasBuild(ver) => \A id \in Range(SplitOn(BuildOf(ver), ".")) : IsBuildId(id))

-----------------------------------------------------------------------------
(* _fetch_versions: the versions in the output of git ls-remote -t --refs *)

RefsTagsV == <<"r", "e", "f", "s", "/", "t", "a", "g", "s", "/", "v">>

\* line.split()[1]: a line is the sequence of its whitespace-separated fields
LineRef(line) == line[2]

\* _fetch_versions with "break" for "continue": the loop ends at the first ref
\* that is not a version tag
RECURSIVE FetchVersionsLoopBreak(_)
FetchVersionsLoopBreak(lines) ==
    IF lines = <<>>
    THEN <<>>
    ELSE IF ~StartsWith(LineRef(Head(lines)), RefsTagsV)
         THEN <<>>
         ELSE IF ~IsValid(RemovePrefix(LineRef(Head(lines)), RefsTagsV))
              THEN <<>>
              ELSE <<RemovePrefix(LineRef(Head(lines)), RefsTagsV)>>
                   \o FetchVersionsLoopBreak(Tail(lines))

\* the loop of _fetch_versions over the lines of stdout
RECURSIVE FetchVersionsLoop(_)
FetchVersionsLoop(lines) ==
    IF lines = <<>>
    THEN <<>>
    ELSE IF ~StartsWith(LineRef(Head(lines)), RefsTagsV)
         THEN FetchVersionsLoop(Tail(lines))
         ELSE IF ~IsValid(RemovePrefix(LineRef(Head(lines)), RefsTagsV))
              THEN FetchVersionsLoop(Tail(lines))
              ELSE <<RemovePrefix(LineRef(Head(lines)), RefsTagsV)>>
                   \o FetchVersionsLoop(Tail(lines))

-----------------------------------------------------------------------------
(* The refs the environment answers with *)

RefsTags == <<"r", "e", "f", "s", "/", "t", "a", "g", "s", "/">>

Ref_v1_0_0 == RefsTags \o <<"v", "1", ".", "0", ".", "0">>
Ref_v1_2_0 == RefsTags \o <<"v", "1", ".", "2", ".", "0">>
Ref_v1_10_0 == RefsTags \o <<"v", "1", ".", "1", "0", ".", "0">>
Ref_v1_1_0_rc1 == RefsTags \o <<"v", "1", ".", "1", ".", "0", "-", "r", "c", "1">>
Ref_v1_0_0_build == RefsTags \o <<"v", "1", ".", "0", ".", "0", "+", "b">>
Ref_bad_tag == RefsTags \o <<"b", "a", "d", "-", "t", "a", "g">>
Ref_1_0_0 == RefsTags \o <<"1", ".", "0", ".", "0">>
Ref_v1_0 == RefsTags \o <<"v", "1", ".", "0">>
Ref_v01_0_0 == RefsTags \o <<"v", "0", "1", ".", "0", ".", "0">>
Ref_v1_0_0_dash == RefsTags \o <<"v", "1", ".", "0", ".", "0", "-">>

ResolverRefs ==
    {Ref_v1_0_0, Ref_v1_2_0, Ref_v1_10_0, Ref_v1_1_0_rc1, Ref_v1_0_0_build,
     Ref_bad_tag, Ref_1_0_0, Ref_v1_0, Ref_v01_0_0, Ref_v1_0_0_dash}

Sha == <<"0", "a">>

\* the sequences without repetition of at most n elements of S
SeqsNoDup(S, n) ==
    {s \in UNION {[1..k -> S] : k \in 0..n} :
        \A i, j \in DOMAIN s : i # j => s[i] # s[j]}

\* git prints one line per ref, and a ref once
Stdouts(refs, n) == {[i \in DOMAIN rs |-> <<Sha, rs[i]>>] : rs \in SeqsNoDup(refs, n)}

-----------------------------------------------------------------------------
(* Manifests: what tooth.json holds, and Manifest.model_validate_json *)

\* [a-z0-9_]
LabelChars == Range(Lower) \cup Range(Digits) \cup {"_"}
IsLabelChar(c) == c \in LabelChars

\* [a-z0-9_]* matched in s from position i: the position after the longest match
RECURSIVE AfterLabelChars(_, _)
AfterLabelChars(s, i) ==
    IF i <= Len(s) /\ IsLabelChar(s[i]) THEN AfterLabelChars(s, i + 1) ELSE i

\* [a-z0-9_]+ matched in s from position i: the positions after a match
AfterLabelPart(s, i) == (i + 1)..AfterLabelChars(s, i)

\* (/[a-z0-9_]+)? matched in s from position i: the positions after a match
AfterOptionalSecondPart(s, i) ==
    {i} \cup (IF i <= Len(s) /\ s[i] = "/" THEN AfterLabelPart(s, i + 1) ELSE {})

\* ([a-z0-9_]+(/[a-z0-9_]+)?)? matched in s from its start: the positions
\* after a match
AfterLabelGroup(s) ==
    {1} \cup UNION {AfterOptionalSecondPart(s, i) : i \in AfterLabelPart(s, 1)}

\* the pattern without "$": a match may end before the end of the label
LabelMatchesPrefix(label) == AfterLabelGroup(label) # {}

\* PackageManifestVariantLabel: ^([a-z0-9_]+(/[a-z0-9_]+)?)?$ matches label,
\* "$" being the end of the text
LabelMatches(label) == (Len(label) + 1) \in AfterLabelGroup(label)

\* Manifest.model_validate_json(content) succeeds: the bytes are a document of
\* the current format, and every variant label matches the pattern
Validates(content) ==
    /\ content.format = "current"
    /\ \A i \in DOMAIN content.variants : LabelMatches(content.variants[i].label)

\* the Manifest that Manifest.model_validate_json(content) returns
ModelValidate(content) ==
    [version |-> content.version, info |-> content.info, variants |-> content.variants]

V_1_0_0 == <<"1", ".", "0", ".", "0">>
V_1_2_0 == <<"1", ".", "2", ".", "0">>
V_1_10_0 == <<"1", ".", "1", "0", ".", "0">>

LabelDefault == <<>>
LabelLinuxAmd64 == <<"l", "i", "n", "u", "x", "/", "a", "m", "d", "6", "4">>
LabelUpper == <<"L", "i", "n", "u", "x">>

NoDeps == <<>>
DepsLibx == <<<<"libx", "^2.0">>>>

\* tooth.json files the raw-content service and lip migrate answer with
ContentTwoVariants ==
    [format |-> "current", version |-> V_1_0_0, info |-> "tool",
     variants |-> <<[label |-> LabelDefault, dependencies |-> NoDeps],
                    [label |-> LabelLinuxAmd64, dependencies |-> DepsLibx]>>]
ContentOneVariant ==
    [format |-> "current", version |-> V_1_2_0, info |-> "tool",
     variants |-> <<[label |-> LabelDefault, dependencies |-> NoDeps]>>]
ContentNoVariants ==
    [format |-> "current", version |-> V_1_10_0, info |-> "tool", variants |-> <<>>]
ContentLegacy ==
    [format |-> "legacy", version |-> V_1_0_0, info |-> "tool",
     variants |-> <<[label |-> LabelDefault, dependencies |-> NoDeps]>>]
ContentBadLabel ==
    [format |-> "current", version |-> V_1_2_0, info |-> "tool",
     variants |-> <<[label |-> LabelUpper, dependencies |-> NoDeps]>>]

-----------------------------------------------------------------------------
(* _fetch_manifest *)

\* What the environment does during one _fetch_manifest call:
\*   http_ok     client.get and raise_for_status raise nothing
\*   raw         response.content
\*   migrate_ok  lip migrate exits with status 0
\*   out         the file lip migrate wrote, NoContent when it wrote none
FetchEnvs(contents) ==
    {[http_ok |-> FALSE, raw |-> NoContent, migrate_ok |-> FALSE, out |-> NoContent]}
    \cup {[http_ok |-> TRUE, raw |-> raw, migrate_ok |-> FALSE, out |-> NoContent] :
            raw \in contents}
    \cup {[http_ok |-> TRUE, raw |-> raw, migrate_ok |-> TRUE, out |-> out] :
            raw \in contents, out \in contents \cup {NoContent}}

\* _fetch_manifest with current_path and legacy_path confused: the bytes parsed
\* are the bytes fetched
FetchManifestReadsLegacy(env) ==
    IF ~env.http_ok
    THEN [raised |-> TRUE, manifest |-> NoManifest, migrate_calls |-> 0]
    ELSE IF ~env.migrate_ok \/ env.out = NoContent \/ ~Validates(env.raw)
         THEN [raised |-> TRUE, manifest |-> NoManifest, migrate_calls |-> 1]
         ELSE [raised |-> FALSE, manifest |-> ModelValidate(env.raw),
               migrate_calls |-> 1]

\* _fetch_manifest building the manifest without validating the bytes
FetchManifestUnvalidated(env) ==
    IF ~env.http_ok
    THEN [raised |-> TRUE, manifest |-> NoManifest, migrate_calls |-> 0]
    ELSE IF ~env.migrate_ok \/ env.out = NoContent
         THEN [raised |-> TRUE, manifest |-> NoManifest, migrate_calls |-> 1]
         ELSE [raised |-> FALSE, manifest |-> ModelValidate(env.out),
               migrate_calls |-> 1]

\* The call's result: it raised, or the manifest it returned; with the number
\* of lip migrate runs.
FetchManifest(env) ==
    IF ~env.http_ok
    THEN [raised |-> TRUE, manifest |-> NoManifest, migrate_calls |-> 0]
    ELSE IF ~env.migrate_ok \/ env.out = NoContent \/ ~Validates(env.out)
         THEN [raised |-> TRUE, manifest |-> NoManifest, migrate_calls |-> 1]
         ELSE [raised |-> FALSE, manifest |-> ModelValidate(env.out),
               migrate_calls |-> 1]

\* lip migrate, run on the bytes fetched, writes bytes that validate
MigratedValid(env) ==
    env.http_ok /\ env.migrate_ok /\ env.out # NoContent /\ Validates(env.out)

\* lastFetch: the call's ref and result, and what the environment did:
\*   fetched         the bytes were fetched
\*   raw_valid       the bytes fetched validate as they are
\*   migrated_valid  lip migrate writes bytes that validate
\*   migrated        those bytes
FetchRecord(ref, env, result) ==
    [ref |-> ref,
     fetched |-> env.http_ok,
     raw_valid |-> env.http_ok /\ Validates(env.raw),
     migrated_valid |-> MigratedValid(env),
     migrated |-> IF MigratedValid(env) THEN env.out ELSE NoContent,
     raised |-> result.raised,
     manifest |-> result.manifest,
     migrate_calls |-> result.migrate_calls]

NoFetch ==
    [ref |-> <<>>, fetched |-> FALSE, raw_valid |-> FALSE, migrated_valid |-> FALSE,
     migrated |-> NoContent, raised |-> FALSE, manifest |-> NoManifest,
     migrate_calls |-> 0]

RefHEAD == <<"H", "E", "A", "D">>

\* f"v{version}"
RefOfVersion(version) == <<"v">> \o version

-----------------------------------------------------------------------------
(* The reduction of main(): the entries of one repository *)

\* any(v.label == var for v in m.variants)
HasLabel(m, var) == \E i \in DOMAIN m.variants : m.variants[i].label = var

\* set(v.label for m in manifests for v in m.variants)
VariantLabels(ms) ==
    UNION {{ms[j].variants[i].label : i \in DOMAIN ms[j].variants} : j \in DOMAIN ms}

\* [m.version for m in manifests if any(v.label == var for v in m.variants)]
RECURSIVE VersionsOf(_, _)
VersionsOf(ms, var) ==
    IF ms = <<>>
    THEN <<>>
    ELSE IF HasLabel(Head(ms), var)
         THEN <<Head(ms).version>> \o VersionsOf(Tail(ms), var)
         ELSE VersionsOf(Tail(ms), var)

\* a dict built from (key, value) items in order: a later item replaces an
\* earlier one of the same key
DictOf(items) ==
    [k \in {items[i][1] : i \in DOMAIN items} |->
        items[CHOOSE i \in DOMAIN items :
                /\ items[i][1] = k
                /\ \A j \in DOMAIN items : items[j][1] = k => j <= i][2]]

\* the (k, v) of every variant of m labelled var, in order
RECURSIVE DependencyItems(_, _)
DependencyItems(vs, var) ==
    IF vs = <<>>
    THEN <<>>
    ELSE IF Head(vs).label = var
         THEN Head(vs).dependencies \o DependencyItems(Tail(vs), var)
         ELSE DependencyItems(Tail(vs), var)

\* the (m.version, IndexVersionForLeviLauncher) of every manifest with var
RECURSIVE VersionItems(_, _)
VersionItems(ms, var) ==
    IF ms = <<>>
    THEN <<>>
    ELSE IF HasLabel(Head(ms), var)
         THEN <<<<Head(ms).version,
                  [dependencies |-> DictOf(DependencyItems(Head(ms).variants, var))]>>>>
              \o VersionItems(Tail(ms), var)
         ELSE VersionItems(Tail(ms), var)

\* the keys of the dict built from (key, value) items, in the order a dict
\* keeps: the order in which the keys were first inserted
RECURSIVE DictKeys(_)
DictKeys(items) ==
    IF items = <<>>
    THEN <<>>
    ELSE LET before == DictKeys(SubSeq(items, 1, Len(items) - 1))
             key == items[Len(items)][1]
         IN IF \E i \in DOMAIN before : before[i] = key
            THEN before
            ELSE Append(before, key)

\* the orders in which "for var in variants" can take the elements of the set
\* variants: the iteration order of a set of strings is fixed by their hashes,
\* which change from one process to the next
IterationOrders(S) ==
    {order \in [1..Cardinality(S) -> S] :
        \A i, j \in DOMAIN order : i # j => order[i] # order[j]}

\* A dict is its mapping and the order of its keys: variants and
\* variants_keys, versions and versions_keys.
IndexPackage(head, info, ms, order) ==
    [info |-> head.info,
     stargazer_count |-> info.stargazer_count,
     updated_at |-> info.updated_at,
     variants |-> [var \in VariantLabels(ms) |-> [versions |-> VersionsOf(ms, var)]],
     variants_keys |-> order]

IndexPackageForLeviLauncher(head, info, ms, order) ==
    [info |-> head.info,
     stargazer_count |-> info.stargazer_count,
     updated_at |-> info.updated_at,
     variants |-> [var \in VariantLabels(ms) |->
                     [versions |-> DictOf(VersionItems(ms, var)),
                      versions_keys |-> DictKeys(VersionItems(ms, var))]],
     variants_keys |-> order]

\* d[key] = value
SetItem(d, key, value) ==
    [k \in DOMAIN d \cup {key} |-> IF k = key THEN value ELSE d[k]]

-----------------------------------------------------------------------------
(* The environment of a run *)

\* repository identifiers are opaque: the repositories are numbered
RepoIds == 1..MaxRepos

\* The runs explored are of two kinds, fixed when the run starts: many
\* repositories whose tags and manifests are simple, or few repositories with
\* every tag and manifest of the model.
SimpleUpstream ==
    [max_repos |-> MaxRepos,
     refs |-> {Ref_v1_2_0, Ref_bad_tag},
     contents |-> {ContentOneVariant, ContentLegacy, ContentBadLabel}]
VariedUpstream ==
    [max_repos |-> MaxVariedRepos,
     refs |-> {Ref_v1_0_0, Ref_v1_2_0, Ref_bad_tag},
     contents |-> {ContentTwoVariants, ContentOneVariant, ContentNoVariants,
                   ContentLegacy}]

\* gh search returns, in any order, each of the n repositories that exist at
\* most once
Discoveries(n) == SeqsNoDup(1..n, n)

RepoInfos == {[stargazer_count |-> 7, updated_at |-> "2024-05-01T00:00:00Z"]}
NoRepoInfo == [absent |-> TRUE]

\* _BASE_DIR before the run: empty, or holding the documents of an earlier run
PriorDocument == [kind |-> "prior"]
Absent == [kind |-> "absent"]

\* the keys of packages (or packages_for_levilauncher) in the order the dict
\* keeps: packages[repo] is assigned once per repository, in the order of the
\* loop over the repositories discovered
RECURSIVE KeysInOrder(_, _)
KeysInOrder(doc, found) ==
    IF found = <<>>
    THEN <<>>
    ELSE IF Head(found) \in DOMAIN doc
         THEN <<Head(found)>> \o KeysInOrder(doc, Tail(found))
         ELSE KeysInOrder(doc, Tail(found))

\* model_dump_json of an IndexVariant or an IndexVariantForLeviLauncher: the
\* list as it is, the dict as its items in the order of its keys
DumpVariant(variant) ==
    IF "versions_keys" \in DOMAIN variant
    THEN [versions |-> [k \in DOMAIN variant.versions_keys |->
                          <<variant.versions_keys[k],
                            variant.versions[variant.versions_keys[k]]>>]]
    ELSE [versions |-> variant.versions]

\* model_dump_json of an entry: the variants dict as its items in the order of
\* its keys
DumpPackage(entry) ==
    [info |-> entry.info,
     stargazer_count |-> entry.stargazer_count,
     updated_at |-> entry.updated_at,
     variants |-> [k \in DOMAIN entry.variants_keys |->
                     <<entry.variants_keys[k],
                       DumpVariant(entry.variants[entry.variants_keys[k]])>>]]

\* index.model_dump_json(): the packages dict as its items in the order of its
\* keys; nothing is sorted
ModelDumpJson(doc) ==
    [k \in DOMAIN KeysInOrder(doc, repos) |->
        <<KeysInOrder(doc, repos)[k], DumpPackage(doc[KeysInOrder(doc, repos)[k]])>>]

\* a document written by this run: what it holds, and its text
Written(doc) == [kind |-> "written", packages |-> doc, text |-> ModelDumpJson(doc)]
\* a file opened for writing and not yet closed: empty, or the first bytes
Partial == [kind |-> "partial"]

EmptyDir == [index |-> Absent, levilauncher |-> Absent, cache |-> {}]
PriorDir == [index |-> PriorDocument, levilauncher |-> PriorDocument, cache |-> {}]

-----------------------------------------------------------------------------
(* main() *)

Init ==
    /\ pc = "cleanup"
    /\ baseDir \in {EmptyDir, PriorDir}
    /\ repos = <<>>
    /\ ri = 0
    /\ attempt = 0
    /\ repo_info = NoRepoInfo
    /\ head_manifest = NoManifest
    /\ versions = <<>>
    /\ vi = 0
    /\ manifests = <<>>
    /\ packages = <<>>
    /\ packages_for_levilauncher = <<>>
    /\ exitCode = -1
    /\ lastFetch = NoFetch
    /\ tried = <<>>
    /\ status = [r \in RepoIds |-> "pending"]
    /\ stdout = <<>>
    /\ upstream \in {SimpleUpstream, VariedUpstream}
    /\ discover_error = "none"
    /\ tooth_json = NoContent

\* the repository of the current iteration of "for repo in ..."
repo == repos[ri]

\* main() without the repository's try block: the exception ends the run
PcAfterRepoFailurePropagates == "crashed"

\* main() taking the repository again after its failure was logged
PcAfterRepoFailureTakesAgain == "repo_info"

\* where main() continues after "except Exception" of the repository's try
\* block has logged the failure: the next iteration of the loop
PcAfterRepoFailure == "for_repo"

\* main() without the version's try block: the exception leaves the inner loop
\* and is logged by the repository's handler
PcAfterVersionFailureAborts == "for_repo"

\* where main() continues after "except Exception" of the version's try block
\* has logged the failure: the next iteration of the inner loop
PcAfterVersionFailure == "for_ver"

\* _fetch_versions returning an empty list where git ls-remote failed
PcAfterFetchVersionsSwallowed(ok) == "for_ver"

\* where main() continues after _fetch_versions(repo)
PcAfterFetchVersions(ok) == IF ok THEN "for_ver" ELSE PcAfterRepoFailure

\* main() with the exception of a step logged inside the step: the repository
\* goes on with its tag listing
RepoFailedGoesOn(how) ==
    /\ pc' = "fetch_versions"
    /\ exitCode' = exitCode
    /\ status' = [status EXCEPT ![repo] = how]

\* an exception leaves the repository's try block
RepoFailed(how) ==
    /\ pc' = PcAfterRepoFailure
    /\ exitCode' = IF PcAfterRepoFailure = "crashed" THEN 1 ELSE exitCode
    /\ status' = [status EXCEPT ![repo] = IF @ = "processing" THEN how ELSE @]

\* _cleanup(): rmtree(_BASE_DIR) and mkdir
Cleanup ==
    /\ pc = "cleanup"
    /\ baseDir' = EmptyDir
    /\ pc' = "discover"
    /\ attempt' = 1
    /\ UNCHANGED <<repos, ri, repo_info, head_manifest, versions, vi, manifests,
                   packages, packages_for_levilauncher, exitCode, lastFetch, tried,
                   status, stdout, upstream, discover_error, tooth_json>>

\* _discover_repos() returns the repositories gh search printed
DiscoverOk ==
    /\ pc = "discover"
    /\ \E found \in Discoveries(upstream.max_repos) : repos' = found
    /\ pc' = "for_repo"
    /\ attempt' = 0
    /\ discover_error' = "none"
    /\ UNCHANGED <<baseDir, ri, repo_info, head_manifest, versions, vi, manifests,
                   packages, packages_for_levilauncher, exitCode, lastFetch, tried,
                   status, stdout, upstream, tooth_json>>

\* why gh search exits with an error: the rate limit of the search API, or
\* anything else; subprocess.run(check=True) raises CalledProcessError for both
DiscoverErrors == {"rate_limit", "other"}

\* gh search or json.loads raises: @retry calls again whatever was raised, and
\* re-raises after the last attempt, which ends main()
DiscoverFail ==
    /\ pc = "discover"
    /\ \E error \in DiscoverErrors : discover_error' = error
    /\ IF attempt < MaxAttempts
       THEN /\ attempt' = attempt + 1
            /\ UNCHANGED <<pc, exitCode>>
       ELSE /\ pc' = "crashed"
            /\ exitCode' = 1
            /\ attempt' = 0
    /\ UNCHANGED <<baseDir, repos, ri, repo_info, head_manifest, versions, vi,
                   manifests, packages, packages_for_levilauncher, lastFetch, tried,
                   status, stdout, upstream, tooth_json>>

\* "for repo in ...": the next repository enters the try block
ForRepo ==
    /\ pc = "for_repo"
    /\ ri < Len(repos)
    /\ ri' = ri + 1
    /\ pc' = "repo_info"
    /\ attempt' = 1
    /\ status' = [status EXCEPT ![repos[ri + 1]] = "processing"]
    /\ repo_info' = NoRepoInfo
    /\ head_manifest' = NoManifest
    /\ versions' = <<>>
    /\ vi' = 0
    /\ manifests' = <<>>
    /\ tried' = <<>>
    /\ lastFetch' = NoFetch
    /\ UNCHANGED <<baseDir, repos, packages, packages_for_levilauncher, exitCode,
                   stdout, upstream, discover_error, tooth_json>>

\* _fetch_repo_info(repo) returns
FetchRepoInfoOk ==
    /\ pc = "repo_info"
    /\ \E info \in RepoInfos : repo_info' = info
    /\ pc' = "head"
    /\ attempt' = 0
    /\ UNCHANGED <<baseDir, repos, ri, head_manifest, versions, vi, manifests,
                   packages, packages_for_levilauncher, exitCode, lastFetch, tried,
                   status, stdout, upstream, discover_error, tooth_json>>

\* gh repo view or json.loads raises: @retry calls again, and re-raises after
\* the last attempt
FetchRepoInfoFail ==
    /\ pc = "repo_info"
    /\ IF attempt < MaxAttempts
       THEN /\ attempt' = attempt + 1
            /\ UNCHANGED <<pc, exitCode, status>>
       ELSE /\ RepoFailed("info_failed")
            /\ attempt' = 0
    /\ UNCHANGED <<baseDir, repos, ri, repo_info, head_manifest, versions, vi,
                   manifests, packages, packages_for_levilauncher, lastFetch, tried,
                   stdout, upstream, discover_error, tooth_json>>

\* head_manifest = _fetch_manifest(repo, "HEAD", client=client)
FetchHead ==
    /\ pc = "head"
    /\ \E env \in FetchEnvs(upstream.contents) :
        LET result == FetchManifest(env) IN
        /\ lastFetch' = FetchRecord(RefHEAD, env, result)
        /\ IF result.raised
           THEN /\ RepoFailed("head_failed")
                /\ UNCHANGED head_manifest
           ELSE /\ head_manifest' = result.manifest
                /\ pc' = "fetch_versions"
                /\ UNCHANGED <<exitCode, status>>
    /\ UNCHANGED <<baseDir, repos, ri, attempt, repo_info, versions, vi, manifests,
                   packages, packages_for_levilauncher, tried, stdout, upstream,
                   discover_error, tooth_json>>

\* versions = _fetch_versions(repo): git ls-remote prints its refs
FetchVersionsOk ==
    /\ pc = "fetch_versions"
    /\ \E out \in Stdouts(upstream.refs, MaxTags) : versions' = FetchVersionsLoop(out)
    /\ pc' = PcAfterFetchVersions(TRUE)
    /\ vi' = 0
    /\ manifests' = <<>>
    /\ UNCHANGED <<baseDir, repos, ri, attempt, repo_info, head_manifest, packages,
                   packages_for_levilauncher, exitCode, lastFetch, tried, status,
                   stdout, upstream, discover_error, tooth_json>>

\* git ls-remote exits with an error: subprocess.run(check=True) raises
FetchVersionsFail ==
    /\ pc = "fetch_versions"
    /\ pc' = PcAfterFetchVersions(FALSE)
    /\ exitCode' = IF pc' = "crashed" THEN 1 ELSE exitCode
    /\ status' = [status EXCEPT ![repo] = "versions_failed"]
    /\ UNCHANGED <<baseDir, repos, ri, attempt, repo_info, head_manifest, versions,
                   vi, manifests, packages, packages_for_levilauncher, lastFetch,
                   tried, stdout, upstream, discover_error, tooth_json>>

\* tried: one record per version the inner loop has taken:
\*   outcome    "ok", or the step that raised
\*   validated  the manifest of the tag was fetched, migrated and validated
\*   manifest   the manifest appended to manifests, if any
Attempt(ver, outcome, env, manifest) ==
    [version |-> ver, outcome |-> outcome, validated |-> MigratedValid(env),
     manifest |-> manifest]

\* One iteration of "for ver in versions":
\* _download_and_save_version_manifest(repo, ver) fetches the manifest of the
\* tag, writes it to _BASE_DIR/<repo>@<ver>/tooth.json and returns it, and
\* main() appends it to manifests; an exception of the fetch or of the write is
\* logged by the version's "except Exception".
DownloadAndSaveVersionManifest ==
    /\ pc = "for_ver"
    /\ vi < Len(versions)
    /\ vi' = vi + 1
    /\ \E env \in FetchEnvs(upstream.contents) :
        LET ver == versions[vi + 1]
            result == FetchManifest(env)
        IN
        /\ lastFetch' = FetchRecord(RefOfVersion(ver), env, result)
        /\ \/ /\ result.raised
              /\ tried' = Append(tried, Attempt(ver, "fetch_failed", env, NoManifest))
              /\ pc' = PcAfterVersionFailure
              /\ UNCHANGED <<baseDir, manifests>>
           \/ /\ ~result.raised
              /\ tried' = Append(tried, Attempt(ver, "write_failed", env, NoManifest))
              /\ pc' = PcAfterVersionFailure
              /\ UNCHANGED <<baseDir, manifests>>
           \/ /\ ~result.raised
              /\ baseDir' = [baseDir EXCEPT !.cache = @ \cup {<<repo, ver>>}]
              /\ manifests' = Append(manifests, result.manifest)
              /\ tried' = Append(tried, Attempt(ver, "ok", env, result.manifest))
              /\ pc' = "for_ver"
    /\ UNCHANGED <<repos, ri, attempt, repo_info, head_manifest, versions, packages,
                   packages_for_levilauncher, exitCode, status, stdout, upstream,
                   discover_error, tooth_json>>

\* After the inner loop: packages[repo] = IndexPackage(...) and
\* packages_for_levilauncher[repo] = IndexPackageForLeviLauncher(...)
Reduce ==
    /\ pc = "for_ver"
    /\ vi = Len(versions)
    /\ \E variants \in IterationOrders(VariantLabels(manifests)) :
         /\ packages' =
               SetItem(packages, repo,
                       IndexPackage(head_manifest, repo_info, manifests, variants))
         /\ packages_for_levilauncher' =
               SetItem(packages_for_levilauncher, repo,
                       IndexPackageForLeviLauncher(head_manifest, repo_info,
                                                   manifests, variants))
    /\ status' = [status EXCEPT ![repo] = IF @ = "processing" THEN "reduced" ELSE @]
    /\ pc' = "for_repo"
    /\ UNCHANGED <<baseDir, repos, ri, attempt, repo_info, head_manifest, versions,
                   vi, manifests, exitCode, lastFetch, tried, stdout, upstream,
                   discover_error, tooth_json>>

\* After the loop over the repositories: _save_index(Index(packages=packages)).
\* path.write_bytes opens index.json for writing, which creates it empty ...
\* The locals of the loop are not read again.
SaveIndexOpen ==
    /\ pc = "for_repo"
    /\ ri = Len(repos)
    /\ baseDir' = [baseDir EXCEPT !.index = Partial]
    /\ pc' = "save_index"
    /\ repo_info' = NoRepoInfo
    /\ head_manifest' = NoManifest
    /\ versions' = <<>>
    /\ vi' = 0
    /\ manifests' = <<>>
    /\ tried' = <<>>
    /\ lastFetch' = NoFetch
    /\ UNCHANGED <<repos, ri, attempt, packages, packages_for_levilauncher, exitCode,
                   status, stdout, upstream, discover_error, tooth_json>>

\* ... then writes the bytes into it and closes it
SaveIndex ==
    /\ pc = "save_index"
    /\ baseDir' = [baseDir EXCEPT !.index = Written(packages)]
    /\ pc' = "save_levilauncher"
    /\ UNCHANGED <<repos, ri, attempt, repo_info, head_manifest, versions, vi,
                   manifests, packages, packages_for_levilauncher, exitCode,
                   lastFetch, tried, status, stdout, upstream, discover_error,
                   tooth_json>>

\* _save_index_for_levilauncher(IndexForLeviLauncher(...)): path.write_bytes
\* opens levilauncher.json for writing ...
SaveIndexForLeviLauncherOpen ==
    /\ pc = "save_levilauncher"
    /\ baseDir' = [baseDir EXCEPT !.levilauncher = Partial]
    /\ pc' = "write_levilauncher"
    /\ UNCHANGED <<repos, ri, attempt, repo_info, head_manifest, versions, vi,
                   manifests, packages, packages_for_levilauncher, exitCode,
                   lastFetch, tried, status, stdout, upstream, discover_error,
                   tooth_json>>

\* ... then writes the bytes into it and closes it, and main() returns
SaveIndexForLeviLauncher ==
    /\ pc = "write_levilauncher"
    /\ baseDir' = [baseDir EXCEPT !.levilauncher = Written(packages_for_levilauncher)]
    /\ pc' = "done"
    /\ exitCode' = 0
    /\ UNCHANGED <<repos, ri, attempt, repo_info, head_manifest, versions, vi,
                   manifests, packages, packages_for_levilauncher, lastFetch, tried,
                   status, stdout, upstream, discover_error, tooth_json>>

Next ==
    \/ Cleanup
    \/ DiscoverOk
    \/ DiscoverFail
    \/ ForRepo
    \/ FetchRepoInfoOk
    \/ FetchRepoInfoFail
    \/ FetchHead
    \/ FetchVersionsOk
    \/ FetchVersionsFail
    \/ DownloadAndSaveVersionManifest
    \/ Reduce
    \/ SaveIndexOpen
    \/ SaveIndex
    \/ SaveIndexForLeviLauncherOpen
    \/ SaveIndexForLeviLauncher

Spec == Init /\ [][Next]_vars

\* main() is one sequential thread: as long as a call it waits for returns or
\* raises, its next step is taken
SpecLive == Spec /\ WF_vars(Next)

-----------------------------------------------------------------------------
(* The version resolver alone, on the output of git ls-remote *)

InitResolver ==
    /\ pc = "resolver"
    /\ stdout \in Stdouts(ResolverRefs, MaxRefLines)
    /\ baseDir = EmptyDir
    /\ repos = <<>>
    /\ ri = 0
    /\ attempt = 0
    /\ repo_info = NoRepoInfo
    /\ head_manifest = NoManifest
    /\ versions = <<>>
    /\ vi = 0
    /\ manifests = <<>>
    /\ packages = <<>>
    /\ packages_for_levilauncher = <<>>
    /\ exitCode = -1
    /\ lastFetch = NoFetch
    /\ tried = <<>>
    /\ status = [r \in RepoIds |-> "pending"]
    /\ upstream = VariedUpstream
    /\ discover_error = "none"
    /\ tooth_json = NoContent

\* the part of _fetch_versions after subprocess.run returned
ResolveVersions ==
    /\ pc = "resolver"
    /\ versions' = FetchVersionsLoop(stdout)
    /\ pc' = "resolved"
    /\ UNCHANGED <<baseDir, repos, ri, attempt, repo_info, head_manifest, vi,
                   manifests, packages, packages_for_levilauncher, exitCode,
                   lastFetch, tried, status, stdout, upstream,
                   discover_error, tooth_json>>

NextResolver == ResolveVersions

SpecResolver == InitResolver /\ [][NextResolver]_vars

-----------------------------------------------------------------------------
(* Manifest.model_validate_json alone, on a tooth.json of the current format *)

\* the characters the labels of this check are made of
LabelAlphabet == {"a", "0", "_", "/", "L"}

\* the labels of src/test_entities.py
Label_linux_x64 == <<"l", "i", "n", "u", "x", "_", "x", "6", "4">>
Label_linux_x64_gnu_2 == Label_linux_x64 \o <<"/", "g", "n", "u", "_", "2">>
Label_Linux_x64 == <<"L", "i", "n", "u", "x", "_", "x", "6", "4">>

Labels ==
    UNION {[1..n -> LabelAlphabet] : n \in 0..MaxLabelLen}
    \cup {Label_linux_x64, Label_linux_x64_gnu_2, Label_Linux_x64}

\* a tooth.json whose only variant, or whose second variant, has the label
ToothJsons ==
    {[format |-> "current", version |-> V_1_0_0, info |-> "tool",
      variants |-> <<[label |-> label, dependencies |-> NoDeps]>>] : label \in Labels}
    \cup {[format |-> "current", version |-> V_1_0_0, info |-> "tool",
           variants |-> <<[label |-> LabelDefault, dependencies |-> NoDeps],
                          [label |-> label, dependencies |-> DepsLibx]>>] :
            label \in Labels}

InitValidate ==
    /\ pc = "validate"
    /\ tooth_json \in ToothJsons
    /\ baseDir = EmptyDir
    /\ repos = <<>>
    /\ ri = 0
    /\ attempt = 0
    /\ repo_info = NoRepoInfo
    /\ head_manifest = NoManifest
    /\ versions = <<>>
    /\ vi = 0
    /\ manifests = <<>>
    /\ packages = <<>>
    /\ packages_for_levilauncher = <<>>
    /\ exitCode = -1
    /\ lastFetch = NoFetch
    /\ tried = <<>>
    /\ status = [r \in RepoIds |-> "pending"]
    /\ stdout = <<>>
    /\ upstream = VariedUpstream
    /\ discover_error = "none"

\* Manifest.model_validate_json(tooth_json) returns the manifest, or raises
\* ValidationError
ValidateManifest ==
    /\ pc = "validate"
    /\ IF Validates(tooth_json)
       THEN /\ manifests' = <<ModelValidate(tooth_json)>>
            /\ pc' = "validated"
       ELSE /\ manifests' = <<>>
            /\ pc' = "validation_error"
    /\ UNCHANGED <<baseDir, repos, ri, attempt, repo_info, head_manifest, versions,
                   vi, packages, packages_for_levilauncher, exitCode, lastFetch,
                   tried, status, stdout, upstream, discover_error, tooth_json>>

NextValidate == ValidateManifest

SpecValidate == InitValidate /\ [][NextValidate]_vars

-----------------------------------------------------------------------------
(* What the claims are stated with *)

\* the repositories with an entry in a document of _BASE_DIR
IndexedRepos(doc) == IF doc.kind = "written" THEN DOMAIN doc.packages ELSE {}

\* the repository of the current iteration has left its try block
RepoEnded == ri > 0 /\ pc = "for_repo"

\* ... through the reduction
RepoReduced == RepoEnded /\ status[repo] = "reduced"

\* the number of versions an entry lists, over all its variant labels
RECURSIVE SumOfLens(_, _)
SumOfLens(variants, labels) ==
    IF labels = {}
    THEN 0
    ELSE LET l == CHOOSE x \in labels : TRUE
         IN Len(variants[l].versions) + SumOfLens(variants, labels \ {l})
TotalVersions(entry) == SumOfLens(entry.variants, DOMAIN entry.variants)

\* the versions the inner loop took whose manifest was appended to manifests
Succeeded == {i \in DOMAIN tried : tried[i].outcome = "ok"}

\* the items of the sequence s
Items(s) == {s[i] : i \in DOMAIN s}

\* the k-th smallest element of the set S of numbers
KthOf(S, k) == CHOOSE i \in S : Cardinality({j \in S : j <= i}) = k

\* the versions of the current repository whose manifest was fetched, migrated
\* and validated, was cached, and declares a variant labelled l
ValidatedWith(l) ==
    {i \in DOMAIN tried :
        tried[i].validated /\ tried[i].outcome = "ok" /\ HasLabel(tried[i].manifest, l)}

\* an entry of packages, once assigned, stays as it is
EntriesKept ==
    \A r \in DOMAIN packages : r \in DOMAIN packages' /\ packages'[r] = packages[r]

\* the lines of stdout whose ref is refs/tags/v<rest> with <rest> a semantic
\* version, and the <rest> of such a line
IsVersionTag(ref) ==
    /\ Len(ref) >= 11
    /\ SubSeq(ref, 1, 11) = RefsTagsV
    /\ IsValid(SubSeq(ref, 12, Len(ref)))
VersionLines == {i \in DOMAIN stdout : IsVersionTag(stdout[i][2])}
RestOf(i) == SubSeq(stdout[i][2], 12, Len(stdout[i][2]))

-----------------------------------------------------------------------------
(* Semantic-version precedence (semver.org, item 11) *)

Ascii == <<"-">> \o Digits \o Upper \o Lower
CharOrd(c) == CHOOSE i \in DOMAIN Ascii : Ascii[i] = c

\* the number a sequence of digits denotes
RECURSIVE NumOf(_)
NumOf(s) ==
    IF s = <<>>
    THEN 0
    ELSE 10 * NumOf(SubSeq(s, 1, Len(s) - 1)) + (CharOrd(s[Len(s)]) - 2)

\* -1, 0, 1: a before, equal to, after b
CmpInt(a, b) == IF a < b THEN -1 ELSE IF a > b THEN 1 ELSE 0

\* strings in ASCII order
RECURSIVE CmpText(_, _)
CmpText(a, b) ==
    IF a = <<>> /\ b = <<>> THEN 0
    ELSE IF a = <<>> THEN -1
    ELSE IF b = <<>> THEN 1
    ELSE IF CharOrd(Head(a)) # CharOrd(Head(b))
         THEN CmpInt(CharOrd(Head(a)), CharOrd(Head(b)))
         ELSE CmpText(Tail(a), Tail(b))

\* prerelease identifiers: numeric ones by value and before the others
CmpId(a, b) ==
    IF AllDigits(a) /\ AllDigits(b) THEN CmpInt(NumOf(a), NumOf(b))
    ELSE IF AllDigits(a) THEN -1
    ELSE IF AllDigits(b) THEN 1
    ELSE CmpText(a, b)

\* lists of identifiers: the first difference decides, then the shorter list
RECURSIVE CmpIds(_, _)
CmpIds(a, b) ==
    IF a = <<>> /\ b = <<>> THEN 0
    ELSE IF a = <<>> THEN -1
    ELSE IF b = <<>> THEN 1
    ELSE IF CmpId(Head(a), Head(b)) # 0
         THEN CmpId(Head(a), Head(b))
         ELSE CmpIds(Tail(a), Tail(b))

\* <<major, minor, patch>>
CoreNums(ver) == [i \in 1..3 |-> NumOf(SplitOn(CoreOf(ver), ".")[i])]

CmpCore(a, b) ==
    IF a[1] # b[1] THEN CmpInt(a[1], b[1])
    ELSE IF a[2] # b[2] THEN CmpInt(a[2], b[2])
    ELSE CmpInt(a[3], b[3])

\* major, minor, patch, then the prerelease; a version with a prerelease
\* precedes the same version without; build metadata is ignored
CmpVersion(a, b) ==
    IF CoreNums(a) # CoreNums(b)
    THEN CmpCore(CoreNums(a), CoreNums(b))
    ELSE IF HasPrerelease(a) /\ HasPrerelease(b)
         THEN CmpIds(SplitOn(PrereleaseOf(a), "."), SplitOn(PrereleaseOf(b), "."))
         ELSE IF HasPrerelease(a) THEN -1
         ELSE IF HasPrerelease(b) THEN 1
         ELSE 0

\* vs ascends by precedence
Ascending(vs) == \A i, j \in DOMAIN vs : i < j => CmpVersion(vs[i], vs[j]) <= 0

-----------------------------------------------------------------------------
(* C1..C10 *)

\* C1: a _fetch_manifest call whose fetched bytes already validate against the
\* current schema runs lip migrate zero times.
C1_ValidManifestSkipsMigration ==
    (lastFetch.fetched /\ lastFetch.raw_valid) => lastFetch.migrate_calls = 0

\* C2: no _fetch_manifest call runs lip migrate more than once; a call whose
\* fetched bytes fail validation while the migrated bytes validate runs it
\* exactly once and returns the manifest parsed from the migrated bytes.
C2_MigratesOnceAndReturnsMigrated ==
    /\ lastFetch.migrate_calls <= 1
    /\ (lastFetch.fetched /\ ~lastFetch.raw_valid /\ lastFetch.migrated_valid)
         => /\ lastFetch.migrate_calls = 1
            /\ ~lastFetch.raised
            /\ lastFetch.manifest = ModelValidate(lastFetch.migrated)

C2_Witness ==
    /\ lastFetch.fetched
    /\ ~lastFetch.raw_valid
    /\ lastFetch.migrated_valid
    /\ lastFetch.migrate_calls = 1
    /\ lastFetch.manifest = ModelValidate(ContentOneVariant)

\* C3: a repository whose HEAD manifest fetch (fetch, migration, validation)
\* or whose _fetch_versions call failed has no entry in packages, in
\* packages_for_levilauncher, or in a document written to _BASE_DIR.
C3_FailedRepoHasNoEntry ==
    \A r \in RepoIds :
        status[r] \in {"head_failed", "versions_failed"}
          => /\ r \notin DOMAIN packages
             /\ r \notin DOMAIN packages_for_levilauncher
             /\ r \notin IndexedRepos(baseDir.index)
             /\ r \notin IndexedRepos(baseDir.levilauncher)

C3_Witness ==
    /\ pc = "done"
    /\ baseDir.index.kind = "written"
    /\ baseDir.levilauncher.kind = "written"
    /\ \E r \in RepoIds : status[r] = "head_failed"
    /\ \E r \in RepoIds : status[r] = "versions_failed"

\* C4: an entry of the written index lists at least one version: a repository
\* whose reduction ends with zero versions over all variant labels has no entry.
C4_NoEntryWithoutVersions ==
    \A r \in IndexedRepos(baseDir.index) :
        TotalVersions(baseDir.index.packages[r]) > 0

\* C5: once the HEAD manifest and the versions of a repository are there, a
\* failure of the fetch, migration, validation or cache write of one version
\* skips that version only: the inner loop takes every resolved version, the
\* repository gets its entry, and every version whose manifest succeeded is
\* listed under each label of its manifest.
C5_VersionFailureSkipsOnlyThatVersion ==
    (RepoEnded /\ head_manifest # NoManifest /\ status[repo] # "versions_failed")
      => /\ Len(tried) = Len(versions)
         /\ \A i \in DOMAIN tried : tried[i].version = versions[i]
         /\ repo \in DOMAIN packages
         /\ \A i \in Succeeded :
              \A l \in VariantLabels(<<tried[i].manifest>>) :
                 /\ l \in DOMAIN packages[repo].variants
                 /\ tried[i].manifest.version
                      \in Items(packages[repo].variants[l].versions)

C5_Witness ==
    /\ RepoReduced
    /\ Len(tried) = 2
    /\ tried[1].outcome = "write_failed"
    /\ tried[2].outcome = "ok"
    /\ LabelDefault \in DOMAIN packages[repo].variants
    /\ tried[2].manifest.version \in Items(packages[repo].variants[LabelDefault].versions)

\* C6: an exception while a repository is processed does not end the run: the
\* run fails only while discovering, before any repository is taken; as long
\* as the run has not ended a step is possible; and when it has ended, every
\* discovered repository was taken, the failed ones are in no document, both
\* documents are written and the exit code is zero.
C6_RepoFailureDoesNotEndRun ==
    /\ (pc = "crashed" \/ exitCode = 1) => ri = 0
    /\ pc \notin {"done", "crashed"} => ENABLED Next
    /\ pc = "done" =>
         /\ exitCode = 0
         /\ ri = Len(repos)
         /\ \A i \in DOMAIN repos : status[repos[i]] \notin {"pending", "processing"}
         /\ baseDir.index = Written(packages)
         /\ baseDir.levilauncher = Written(packages_for_levilauncher)
         /\ \A i \in DOMAIN repos :
              status[repos[i]] # "reduced"
                => /\ repos[i] \notin IndexedRepos(baseDir.index)
                   /\ repos[i] \notin IndexedRepos(baseDir.levilauncher)

C6_Witness ==
    /\ pc = "done"
    /\ exitCode = 0
    /\ Len(repos) = 2
    /\ status[repos[1]] = "info_failed"
    /\ status[repos[2]] = "reduced"
    /\ IndexedRepos(baseDir.index) = {repos[2]}

\* what C7 says of one state
C7_ListedState ==
    /\ RepoReduced =>
         \A l \in DOMAIN packages[repo].variants :
            /\ Len(packages[repo].variants[l].versions) = Cardinality(ValidatedWith(l))
            /\ \A k \in DOMAIN packages[repo].variants[l].versions :
                 packages[repo].variants[l].versions[k]
                   = tried[KthOf(ValidatedWith(l), k)].manifest.version
    /\ baseDir.index.kind = "written" => baseDir.index = Written(packages)

\* C7: the versions an entry lists under a label are, one for one and in
\* order, the versions of the manifests of this run that were fetched,
\* migrated and validated and that declare the label: a version whose manifest
\* failed adds no element.  The entry stays as it is until the index is
\* written, and the index written is packages.
C7_ListedVersionsAreValidated == []C7_ListedState /\ [][EntriesKept]_vars

C7_Witness ==
    /\ RepoReduced
    /\ Len(tried) = 2
    /\ ~tried[1].validated
    /\ tried[2].validated /\ tried[2].outcome = "ok"
    /\ DOMAIN packages[repo].variants = {LabelDefault}
    /\ packages[repo].variants[LabelDefault].versions = <<tried[2].manifest.version>>

\* C8: the list _fetch_versions returns holds, in the order of the output of
\* git ls-remote, the <rest> of exactly the lines whose ref is
\* refs/tags/v<rest> with <rest> a semantic version: the other lines are dropped
\* without an error, and two tags of one version are both there.
C8_ResolverKeepsExactlyVersionTags ==
    pc = "resolved"
      => /\ Len(versions) = Cardinality(VersionLines)
         /\ \A k \in DOMAIN versions : versions[k] = RestOf(KthOf(VersionLines, k))

C8_Witness ==
    /\ pc = "resolved"
    /\ stdout = <<<<Sha, Ref_v1_0_0_build>>, <<Sha, Ref_bad_tag>>, <<Sha, Ref_v1_0_0>>>>
    /\ versions = <<V_1_0_0 \o <<"+", "b">>, V_1_0_0>>
    /\ CmpVersion(versions[1], versions[2]) = 0

\* C9: whatever the order of the lines of git ls-remote, the list
\* _fetch_versions returns ascends by semantic-version precedence.
C9_ResolverSortsByPrecedence == pc = "resolved" => Ascending(versions)

\* C10: in the entry of a repository a label is there iff a manifest fetched
\* with success declares a variant of that label, and the versions under the
\* label are those of these manifests, one for one, sorted ascending.
C10_VariantsListSortedVersions ==
    RepoReduced =>
        /\ DOMAIN packages[repo].variants
             = {l \in {LabelDefault, LabelLinuxAmd64, LabelUpper} : ValidatedWith(l) # {}}
        /\ \A l \in DOMAIN packages[repo].variants :
              /\ Len(packages[repo].variants[l].versions) = Cardinality(ValidatedWith(l))
              /\ Items(packages[repo].variants[l].versions)
                   = {tried[i].manifest.version : i \in ValidatedWith(l)}
              /\ Ascending(packages[repo].variants[l].versions)

-----------------------------------------------------------------------------
(* C11..C20 *)

\* C11: packages_for_levilauncher and packages, and the two documents written
\* from them, have the same repositories, per repository the same variant
\* labels, and per label the same versions: the keys of the map of the
\* LeviLauncher entry are the elements of the list of the entry, one key per
\* element of the list.
C11_LeviLauncherSameDecisions ==
    /\ DOMAIN packages_for_levilauncher = DOMAIN packages
    /\ \A r \in DOMAIN packages :
         /\ DOMAIN packages_for_levilauncher[r].variants = DOMAIN packages[r].variants
         /\ \A l \in DOMAIN packages[r].variants :
              /\ DOMAIN packages_for_levilauncher[r].variants[l].versions
                   = Items(packages[r].variants[l].versions)
              /\ Cardinality(DOMAIN packages_for_levilauncher[r].variants[l].versions)
                   = Len(packages[r].variants[l].versions)
    /\ pc = "done" =>
         IndexedRepos(baseDir.levilauncher) = IndexedRepos(baseDir.index)

\* C12: a run whose discovery failed for good has written no index document,
\* and the index documents that _BASE_DIR held when the run began are still
\* there as they were.
C12_DiscoveryFailureKeepsPriorIndex ==
    /\ [](pc = "crashed" =>
            /\ baseDir.index.kind # "written"
            /\ baseDir.levilauncher.kind # "written")
    /\ [](baseDir.index = PriorDocument /\ baseDir.levilauncher = PriorDocument
            => [](pc = "crashed" =>
                    /\ baseDir.index = PriorDocument
                    /\ baseDir.levilauncher = PriorDocument))

\* a step that drops repository r for a failure of _fetch_repo_info or of
\* _fetch_versions
DroppedForCall(r) ==
    /\ status[r] = "processing"
    /\ status'[r] \in {"info_failed", "versions_failed"}

\* C13: a repository is dropped for a failure of the repository-info call or
\* of the tag-listing call only when that failure is the one of the last of
\* the MaxAttempts attempts of the call: an earlier failure is followed by
\* another attempt.
C13_DroppedOnlyAfterRetries ==
    [][\A r \in RepoIds : DroppedForCall(r) => attempt = MaxAttempts]_vars

\* C14: a run does not fail for the rate limit of the search API: the run that
\* fails in _discover_repos fails for an error that is not the rate limit, and
\* as long as the call is retried the run can still get its repositories.
C14_RateLimitIsNotFatal ==
    /\ pc = "crashed" => discover_error # "rate_limit"
    /\ pc = "discover" => ENABLED DiscoverOk

\* C15: a reader of index.json or of levilauncher.json never finds a file that
\* is written in part, and what it finds changes only from the complete
\* document of before to the complete new document.
C15_ReaderNeverSeesPartialDocument ==
    /\ [](baseDir.index.kind # "partial" /\ baseDir.levilauncher.kind # "partial")
    /\ [][/\ baseDir'.index # baseDir.index => baseDir'.index.kind = "written"
          /\ baseDir'.levilauncher # baseDir.levilauncher
               => baseDir'.levilauncher.kind = "written"]_vars

\* the keys of the items of a dumped dict
KeysOf(items) == [k \in DOMAIN items |-> items[k][1]]

\* the repository keys of a text ascend
KeysAscend(text) == \A i, j \in DOMAIN text : i < j => text[i][1] < text[j][1]

\* the variant labels of a dumped entry ascend
LabelsAscend(dumped) ==
    \A i, j \in DOMAIN dumped.variants :
        i < j => CmpText(dumped.variants[i][1], dumped.variants[j][1]) < 0

\* C16: the text of a document written does not depend on the order in which
\* the repositories were discovered, the tags were listed or a set iterates:
\* in index.json and in levilauncher.json the package keys ascend, the variant
\* labels of every entry ascend, and the versions under every label ascend.
C16_DocumentsDoNotDependOnOrder ==
    pc = "done" =>
        /\ KeysAscend(baseDir.index.text)
        /\ KeysAscend(baseDir.levilauncher.text)
        /\ \A i \in DOMAIN baseDir.index.text :
             /\ LabelsAscend(baseDir.index.text[i][2])
             /\ \A k \in DOMAIN baseDir.index.text[i][2].variants :
                  Ascending(baseDir.index.text[i][2].variants[k][2].versions)
        /\ \A i \in DOMAIN baseDir.levilauncher.text :
             /\ LabelsAscend(baseDir.levilauncher.text[i][2])
             /\ \A k \in DOMAIN baseDir.levilauncher.text[i][2].variants :
                  Ascending(KeysOf(baseDir.levilauncher.text[i][2].variants[k][2].versions))

\* the characters a to z, 0 to 9 and the underscore
SlugChars ==
    {"a", "b", "c", "d", "e", "f", "g", "h", "i", "j", "k", "l", "m", "n", "o", "p",
     "q", "r", "s", "t", "u", "v", "w", "x", "y", "z",
     "0", "1", "2", "3", "4", "5", "6", "7", "8", "9", "_"}

\* the label is empty, or one or two parts separated by "/", each of one or
\* more of these characters
IsSlug(label) ==
    \/ label = <<>>
    \/ /\ Cardinality({i \in DOMAIN label : label[i] = "/"}) <= 1
       /\ \A i \in DOMAIN label : label[i] \in SlugChars \cup {"/"}
       /\ label[1] # "/"
       /\ label[Len(label)] # "/"

\* C17: the validation of a manifest succeeds iff every variant label is empty
\* or one or two "/"-separated parts of one or more characters of [a-z0-9_];
\* with any other label it raises a validation error and returns no manifest.
C17_LabelAcceptedIffSlug ==
    pc \in {"validated", "validation_error"} =>
        /\ pc = "validated"
             <=> \A i \in DOMAIN tooth_json.variants : IsSlug(tooth_json.variants[i].label)
        /\ pc = "validated" => manifests = <<ModelValidate(tooth_json)>>
        /\ pc = "validation_error" => manifests = <<>>

C17_Witness ==
    /\ pc = "validation_error"
    /\ Len(tooth_json.variants) = 2
    /\ tooth_json.variants[2].label = Label_Linux_x64
    /\ manifests = <<>>

\* the repository of the current iteration was dropped
RepoDropped ==
    ri > 0 /\ status[repo] \in {"info_failed", "head_failed", "versions_failed"}

\* the steps of one repository, as the moves of main() from one call to the next
RepoSteps ==
    {<<"for_repo", "repo_info">>,
     <<"repo_info", "head">>, <<"repo_info", "for_repo">>,
     <<"head", "fetch_versions">>, <<"head", "for_repo">>,
     <<"fetch_versions", "for_ver">>, <<"fetch_versions", "for_repo">>,
     <<"for_ver", "for_repo">>}

\* what C18 says of one state
C18_OrderedState ==
    /\ pc \in {"repo_info", "head", "fetch_versions", "for_ver"}
         => status[repo] = "processing"
    /\ pc \in {"fetch_versions", "for_ver"}
         => /\ head_manifest # NoManifest
            /\ lastFetch.ref # <<>>
    /\ pc = "for_ver" => Len(tried) = vi
    /\ \A r \in RepoIds :
         status[r] \in {"info_failed", "head_failed", "versions_failed"}
           => \A c \in baseDir.cache : c[1] # r

\* what C18 says of one step
C18_OrderedStep ==
    /\ (pc \in {"repo_info", "head", "fetch_versions", "for_ver"} /\ pc' # pc)
         => <<pc, pc'>> \in RepoSteps
    /\ vi' = vi + 1
         => /\ pc = "for_ver"
            /\ head_manifest # NoManifest
            /\ status[repo] = "processing"
            /\ lastFetch'.ref = RefOfVersion(versions[vi + 1])
    /\ (RepoDropped /\ ri' = ri) => baseDir'.cache = baseDir.cache
    /\ (RepoDropped /\ ri' = ri /\ pc' # "save_index")
         => UNCHANGED <<lastFetch, repo_info, head_manifest, versions, vi, manifests,
                        tried, attempt>>

\* C18: the calls of one repository come in the order repository info, HEAD
\* manifest, tag listing, version manifests, reduction: a version manifest is
\* fetched only when the HEAD manifest was fetched and the tags were listed
\* with success for this repository in this run, and once the repository is
\* dropped no call is made for it and nothing is cached for it.
C18_StepsInOrder == []C18_OrderedState /\ [][C18_OrderedStep]_vars

C18_Witness ==
    /\ Len(repos) = 2
    /\ ri = 2
    /\ status[repos[1]] = "head_failed"
    /\ pc = "for_ver"
    /\ vi = 1
    /\ lastFetch.ref = RefOfVersion(versions[1])
    /\ baseDir.cache = {<<repos[2], versions[1]>>}

\* C19: the versions an entry lists under a label are, one for one and in
\* order, the versions of the tags of the repository whose manifest was
\* fetched from the tag with success and declares the label: each is the
\* version of its tag, so that a manifest was cached under the repository and
\* that version, and a tag adds at most one element to the list.
C19_ListedVersionIsTagVersion ==
    RepoReduced =>
        \A l \in DOMAIN packages[repo].variants :
            /\ Len(packages[repo].variants[l].versions) = Cardinality(ValidatedWith(l))
            /\ \A k \in DOMAIN packages[repo].variants[l].versions :
                 /\ packages[repo].variants[l].versions[k]
                      = tried[KthOf(ValidatedWith(l), k)].version
                 /\ <<repo, packages[repo].variants[l].versions[k]>> \in baseDir.cache

\* the counters of the run stay within the lists they count
C20_Bounded ==
    /\ attempt <= MaxAttempts
    /\ ri <= Len(repos)
    /\ vi <= Len(versions)
    /\ Len(tried) <= Len(versions)

\* a step takes no repository and no version a second time, and makes at most
\* one more attempt
C20_Forward ==
    /\ ri' \in {ri, ri + 1}
    /\ (ri' = ri /\ pc' # "save_index") => vi' \in {vi, vi + 1}
    /\ attempt' <= attempt + 1
    /\ \A r \in RepoIds :
         (status'[r] = "processing" /\ status[r] # "processing") => status[r] = "pending"

\* the run has ended: both documents are written, or the discovery failed
C20_Ended ==
    \/ /\ pc = "done"
       /\ exitCode = 0
       /\ baseDir.index.kind = "written"
       /\ baseDir.levilauncher.kind = "written"
    \/ /\ pc = "crashed"
       /\ exitCode = 1
       /\ ri = 0

\* C20: whatever fails, the run ends: a retried call makes at most MaxAttempts
\* attempts, a repository and a version are taken at most once, and the run
\* ends with both documents written or with the failure of the discovery.
C20_RunTerminates == []C20_Bounded /\ [][C20_Forward]_vars /\ <>C20_Ended

C20_Witness ==
    /\ pc = "done"
    /\ Len(repos) = 2
    /\ status[repos[1]] = "versions_failed"
    /\ status[repos[2]] = "info_failed"
    /\ baseDir.index = Written(<<>>)
    /\ baseDir.levilauncher = Written(<<>>)

=============================================================================
